---- MODULE Spec2Model ----
(***************************************************************************)
(* Habit tracker: the composite of habits and routines, the per-type       *)
(* strategies (validation, completion, streak) and their factory, the      *)
(* progress tracker, the habit manager, the analytics service and the      *)
(* endpoints, with the in-memory repository.                               *)
(*                                                                         *)
(* Numbers.  A logged value or a target is a Python float.  Here it is the *)
(* integer count of 1/Scale units: 1.0 is One (= Scale), 0.5 is 1 when     *)
(* Scale = 2.  NaN and the infinities are not modelled.  A date is an      *)
(* integer day number; Today is the value of date.today().                 *)
(*                                                                         *)
(* Objects.  heap[id] is the Python object whose id field is id; storage   *)
(* is the key set of InMemoryHabitRepository._storage.  An object stays on *)
(* the heap when its key is deleted, as a parent routine may still hold    *)
(* it.  last is the most recent call: its arguments and what it returned   *)
(* or raised.  strategies is HabitStrategyFactory._strategies, the class   *)
(* registered under each type tag.                                         *)
(***************************************************************************)
EXTENDS Integers, Sequences, FiniteSets, TLC

VARIABLES heap, storage, last, strategies

vars == <<heap, storage, last, strategies>>

---------------------------------------------------------------------------
(* Bounds of the exploration *)

\* values are multiples of 1/Scale
Scale == 2
\* the date window reaches PastDays days before today and one day after it
PastDays == 3
\* appended log entries per habit
MaxLogs == 3
\* children per routine
MaxChildren == 2

(* Program constants *)

\* TimeBasedHabitStrategy.validate_value: 1440.0 minutes
MinutesPerDay == 1440

One == Scale
DayLimit == MinutesPerDay * Scale
Today == PastDays
Dates == 0..(Today + 1)

\* identifiers (uuid4 strings in the program)
GroupIds == {"g1", "g2"}
HabitIds == {"h1", "h2", "h3"}
\* an object of a HabitComponent subclass other than Habit and HabitGroup
OtherIds == {"x1"}
Ids == GroupIds \cup HabitIds \cup OtherIds
\* an identifier no object carries
AbsentId == "none"

\* HabitStrategyFactory._strategies keys.  The HabitType enum has the members
\* boolean and numeric only, so the endpoints create no "time" habit; a
\* time habit is a Habit constructed with a type whose value is "time".
StrategyTags == {"boolean", "numeric", "time"}
\* the strategy classes
StrategyClasses == {"BooleanHabitStrategy", "NumericHabitStrategy",
                    "TimeBasedHabitStrategy"}
\* the initial value of HabitStrategyFactory._strategies
InitialStrategies ==
    [tag \in StrategyTags |->
        CASE tag = "boolean" -> "BooleanHabitStrategy"
          [] tag = "numeric" -> "NumericHabitStrategy"
          [] tag = "time"    -> "TimeBasedHabitStrategy"]
Targets == {One, 2 * One}

\* stored values the exploration follows: around 0.0 and around the day limit
Explored == ((0 - One)..(2 * One)) \cup ((DayLimit - 1)..(DayLimit + 1))

---------------------------------------------------------------------------
(* Objects *)

\* The id field of an object is its key in heap.  name and description
\* are drawn from two values each; the category is always the default.
Names == {"n0", "n1"}
Descriptions == {"d0", "d1"}

NoItem == [kind |-> "none", name |-> "", description |-> "",
           category |-> "none", habit_type |-> "none", strategy |-> "none",
           target |-> 0, created_at |-> 0, logs |-> <<>>, habits |-> <<>>]

\* habit_type.lower() on the type values the exploration uses: "BOOLEAN"
\* is the only one with an upper-case letter
Lower(tag) == IF tag = "BOOLEAN" THEN "boolean" ELSE tag

\* a create that falls back to the boolean strategy for an unknown tag
FactoryCreateDefault(reg, tag) ==
    IF Lower(tag) \in DOMAIN reg
    THEN [raised |-> FALSE, strategy |-> reg[Lower(tag)]]
    ELSE [raised |-> FALSE, strategy |-> "BooleanHabitStrategy"]

\* HabitStrategyFactory.create with _strategies = reg: [raised, strategy],
\* raised for the ValueError "Unknown habit type"
FactoryCreate(reg, tag) ==
    IF Lower(tag) \in DOMAIN reg
    THEN [raised |-> FALSE, strategy |-> reg[Lower(tag)]]
    ELSE [raised |-> TRUE, strategy |-> "none"]

\* HabitStrategyFactory.register_strategy: the _strategies it leaves
FactoryRegisterStrategy(reg, tag, cls) ==
    [k \in DOMAIN reg \cup {Lower(tag)} |-> IF k = Lower(tag) THEN cls ELSE reg[k]]

\* Habit(id, "n0", "d0", Category.HEALTH, habit_type, target) with the
\* default created_at and logs, tag the value of habit_type:
\* [raised, habit]; __post_init__ raises what the factory raises
HabitNew(reg, tag, target) ==
    LET s == FactoryCreate(reg, tag)
    IN [raised |-> s.raised,
        habit |-> [kind |-> "habit", name |-> "n0", description |-> "d0",
                   category |-> "health", habit_type |-> tag,
                   strategy |-> s.strategy,
                   target |-> target, created_at |-> Today,
                   logs |-> <<>>, habits |-> <<>>]]

\* the Habit constructed while the factory holds its initial _strategies
NewHabit(tag, target) == HabitNew(InitialStrategies, tag, target).habit

\* HabitGroup(id, "n0", "d0") with the default created_at and habits
NewGroup ==
    [kind |-> "group", name |-> "n0", description |-> "d0",
     category |-> "none", habit_type |-> "none", strategy |-> "none",
     target |-> 0, created_at |-> Today, logs |-> <<>>, habits |-> <<>>]

\* an object of another HabitComponent subclass
OtherItem ==
    [kind |-> "other", name |-> "n0", description |-> "d0",
     category |-> "none", habit_type |-> "none", strategy |-> "none",
     target |-> 0, created_at |-> Today, logs |-> <<>>, habits |-> <<>>]

Log(d, v) == [date |-> d, value |-> v]

---------------------------------------------------------------------------
(* Strategies *)

BooleanValidateValue(v) == v \in {0, One}

NumericValidateValue(v) == v >= 0

TimeBasedValidateValue(v) == 0 <= v /\ v <= DayLimit

\* a completion test that asks for more than the target
StrategyIsCompletedStrict(cls, value, target) == value > target

\* is_completed is the same rule in the three strategies
StrategyIsCompleted(cls, value, target) == value >= target

\* self._strategy.validate_value(value), cls the class of the strategy
\* the habit holds
StrategyValidateValue(cls, v) ==
    CASE cls = "BooleanHabitStrategy"   -> BooleanValidateValue(v)
      [] cls = "NumericHabitStrategy"   -> NumericValidateValue(v)
      [] cls = "TimeBasedHabitStrategy" -> TimeBasedValidateValue(v)

\* sorted(logs, key=lambda x: x[0], reverse=True): stable, newest first.
\* InsertDesc puts x behind every tuple whose date is not older than x's.
InsertDesc(s, x) ==
    LET k == Cardinality({i \in 1..Len(s) : s[i][1] >= x[1]})
    IN SubSeq(s, 1, k) \o <<x>> \o SubSeq(s, k + 1, Len(s))

RECURSIVE SortedDesc(_)
SortedDesc(logs) ==
    IF logs = <<>> THEN <<>>
    ELSE InsertDesc(SortedDesc(SubSeq(logs, 1, Len(logs) - 1)), logs[Len(logs)])

\* a walk that takes every completed day not after expected_date, gaps or not
RECURSIVE StreakWalkOverGaps(_, _, _, _, _)
StreakWalkOverGaps(sorted, i, streak, expected, target) ==
    IF i > Len(sorted) THEN streak
    ELSE IF sorted[i][1] <= expected /\ sorted[i][2] >= target
         THEN StreakWalkOverGaps(sorted, i + 1, streak + 1, sorted[i][1] - 1, target)
    ELSE StreakWalkOverGaps(sorted, i + 1, streak, expected, target)

\* a walk that stops at the first entry not dated expected_date, an entry
\* dated after it included
RECURSIVE StreakWalkNoSkip(_, _, _, _, _)
StreakWalkNoSkip(sorted, i, streak, expected, target) ==
    IF i > Len(sorted) THEN streak
    ELSE IF sorted[i][1] = expected /\ sorted[i][2] >= target
         THEN StreakWalkNoSkip(sorted, i + 1, streak + 1, expected - 1, target)
    ELSE streak

\* the for loop of calculate_streak, at sorted_logs[i] with the loop's
\* streak and expected_date
RECURSIVE StreakWalk(_, _, _, _, _)
StreakWalk(sorted, i, streak, expected, target) ==
    IF i > Len(sorted) THEN streak
    ELSE IF sorted[i][1] = expected /\ sorted[i][2] >= target
         THEN StreakWalk(sorted, i + 1, streak + 1, expected - 1, target)
    ELSE IF sorted[i][1] < expected
         THEN streak
    ELSE StreakWalk(sorted, i + 1, streak, expected, target)

BooleanCalculateStreak(logs, target) ==
    IF logs = <<>> THEN 0
    ELSE StreakWalk(SortedDesc(logs), 1, 0, Today, target)

NumericCalculateStreak(logs, target) ==
    IF logs = <<>> THEN 0
    ELSE StreakWalk(SortedDesc(logs), 1, 0, Today, target)

TimeBasedCalculateStreak(logs, target) ==
    IF logs = <<>> THEN 0
    ELSE StreakWalk(SortedDesc(logs), 1, 0, Today, target)

StrategyCalculateStreak(cls, logs, target) ==
    CASE cls = "BooleanHabitStrategy"   -> BooleanCalculateStreak(logs, target)
      [] cls = "NumericHabitStrategy"   -> NumericCalculateStreak(logs, target)
      [] cls = "TimeBasedHabitStrategy" -> TimeBasedCalculateStreak(logs, target)

---------------------------------------------------------------------------
(* Habit *)

\* indices of the entries of logs dated d
Dated(logs, d) == {i \in 1..Len(logs) : logs[i].date = d}

First(S) == CHOOSE i \in S : \A j \in S : i <= j

\* Habit.get_progress: the first entry dated target_date, else 0.0
HabitGetProgress(h, d) ==
    IF Dated(h.logs, d) = {} THEN 0
    ELSE h.logs[First(Dated(h.logs, d))].value

\* a loop that returns at the entry dated log_date without assigning it
UpsertLogKeep(logs, d, v) ==
    IF Dated(logs, d) = {} THEN Append(logs, Log(d, v))
    ELSE logs

\* no loop: a new Log is appended whatever the entries are
UpsertLogAppend(logs, d, v) == Append(logs, Log(d, v))

\* the loop of add_log: the first entry dated log_date gets the value and
\* the loop returns; with no such entry a new Log is appended
UpsertLog(logs, d, v) ==
    IF Dated(logs, d) = {} THEN Append(logs, Log(d, v))
    ELSE [logs EXCEPT ![First(Dated(logs, d))].value = v]

\* add_log without the validation
HabitAddLogUnchecked(h, d, v) ==
    [raised |-> FALSE, habit |-> [h EXCEPT !.logs = UpsertLog(h.logs, d, v)]]

\* add_log that writes the entry first and validates after it
HabitAddLogWriteFirst(h, d, v) ==
    [raised |-> ~StrategyValidateValue(h.strategy, v),
     habit |-> [h EXCEPT !.logs = UpsertLog(h.logs, d, v)]]

\* Habit.add_log: [raised, habit], the habit as the call leaves it
HabitAddLog(h, d, v) ==
    IF ~StrategyValidateValue(h.strategy, v)
    THEN [raised |-> TRUE, habit |-> h]
    ELSE [raised |-> FALSE, habit |-> [h EXCEPT !.logs = UpsertLog(h.logs, d, v)]]

\* Habit.is_completed
HabitIsCompleted(h, d) ==
    StrategyIsCompleted(h.strategy, HabitGetProgress(h, d), h.target)

\* [(log.date, log.value) for log in self.logs]
LogTuples(logs) == [i \in 1..Len(logs) |-> <<logs[i].date, logs[i].value>>]

\* Habit.calculate_streak
HabitCalculateStreak(h) ==
    StrategyCalculateStreak(h.strategy, LogTuples(h.logs), h.target)

---------------------------------------------------------------------------
(* HabitGroup *)

\* A call chain through more routines than there are objects revisits a
\* routine; the evaluation is deterministic, so it then recurses until
\* Python raises RecursionError.  Fuel counts the routine frames left.
Fuel == Cardinality(Ids)

Returned(b) == [err |-> FALSE, val |-> b]
RecursionError == [err |-> TRUE, val |-> FALSE]

\* all(h.is_completed(d) for h in habits[i..]): stops at the first child
\* that is not completed; an exception in a child propagates
RECURSIVE AllCompleted(_, _, _, _, _)
RECURSIVE ComponentIsCompleted(_, _, _, _)

\* is_completed without the empty-routine test: all() of nothing is True
GroupIsCompletedVacuous(hp, id, d, fuel) ==
    IF fuel = 0 THEN RecursionError
    ELSE AllCompleted(hp, hp[id].habits, 1, d, fuel - 1)

\* HabitGroup.is_completed
GroupIsCompleted(hp, id, d, fuel) ==
    IF fuel = 0 THEN RecursionError
    ELSE IF hp[id].habits = <<>> THEN Returned(FALSE)
    ELSE AllCompleted(hp, hp[id].habits, 1, d, fuel - 1)

\* h.is_completed(d) on a HabitComponent: the leaf's or the routine's
ComponentIsCompleted(hp, id, d, fuel) ==
    IF hp[id].kind = "habit" THEN Returned(HabitIsCompleted(hp[id], d))
    ELSE GroupIsCompleted(hp, id, d, fuel)

AllCompleted(hp, hs, i, d, fuel) ==
    IF i > Len(hs) THEN Returned(TRUE)
    ELSE LET r == ComponentIsCompleted(hp, hs[i], d, fuel)
         IN IF r.err THEN r
            ELSE IF ~r.val THEN Returned(FALSE)
            ELSE AllCompleted(hp, hs, i + 1, d, fuel)

\* a count that stops at the first child that is not completed
RECURSIVE CountCompletedPrefix(_, _, _, _, _)
CountCompletedPrefix(hp, hs, i, d, fuel) ==
    IF i > Len(hs) THEN [err |-> FALSE, n |-> 0]
    ELSE LET r == ComponentIsCompleted(hp, hs[i], d, fuel)
         IN IF r.err THEN [err |-> TRUE, n |-> 0]
            ELSE IF ~r.val THEN [err |-> FALSE, n |-> 0]
            ELSE LET rest == CountCompletedPrefix(hp, hs, i + 1, d, fuel)
                 IN [err |-> rest.err, n |-> IF rest.err THEN 0 ELSE rest.n + 1]

\* sum(1 for h in habits if h.is_completed(d)): every child is asked;
\* [err, n]
RECURSIVE CountCompleted(_, _, _, _, _)
CountCompleted(hp, hs, i, d, fuel) ==
    IF i > Len(hs) THEN [err |-> FALSE, n |-> 0]
    ELSE LET r == ComponentIsCompleted(hp, hs[i], d, fuel)
             rest == CountCompleted(hp, hs, i + 1, d, fuel)
         IN IF r.err \/ rest.err THEN [err |-> TRUE, n |-> 0]
            ELSE [err |-> FALSE, n |-> rest.n + (IF r.val THEN 1 ELSE 0)]

\* completed and all leaves below a component, a routine's leaves flattened
RECURSIVE LeafCount(_, _, _, _)
LeafCount(hp, id, d, fuel) ==
    IF hp[id].kind = "habit"
    THEN [done |-> IF HabitIsCompleted(hp[id], d) THEN 1 ELSE 0, all |-> 1]
    ELSE IF fuel = 0 THEN [done |-> 0, all |-> 0]
    ELSE LET hs == hp[id].habits
             c[i \in 0..Len(hs)] ==
                 IF i = 0 THEN [done |-> 0, all |-> 0]
                 ELSE LET x == LeafCount(hp, hs[i], d, fuel - 1)
                      IN [done |-> c[i - 1].done + x.done, all |-> c[i - 1].all + x.all]
         IN c[Len(hs)]

\* a progress over the flattened leaves instead of the direct children
GroupGetProgressFlat(hp, id, d, fuel) ==
    LET c == LeafCount(hp, id, d, fuel)
    IN IF c.all = 0 THEN [err |-> FALSE, num |-> 0, den |-> 1]
       ELSE [err |-> FALSE, num |-> c.done * 100, den |-> c.all]

\* a get_progress that gives 100.0 for a routine without children
GroupGetProgressEmptyFull(hp, id, d, fuel) ==
    IF hp[id].habits = <<>> THEN [err |-> FALSE, num |-> 100, den |-> 1]
    ELSE LET c == CountCompleted(hp, hp[id].habits, 1, d, fuel - 1)
         IN IF c.err THEN [err |-> TRUE, num |-> 0, den |-> 1]
            ELSE [err |-> FALSE, num |-> c.n * 100, den |-> Len(hp[id].habits)]

\* HabitGroup.get_progress: (completed / len(habits)) * 100.0 as the exact
\* fraction num / den; 0.0 is 0 / 1
GroupGetProgress(hp, id, d, fuel) ==
    IF hp[id].habits = <<>> THEN [err |-> FALSE, num |-> 0, den |-> 1]
    ELSE LET c == CountCompleted(hp, hp[id].habits, 1, d, fuel - 1)
         IN IF c.err THEN [err |-> TRUE, num |-> 0, den |-> 1]
            ELSE [err |-> FALSE, num |-> c.n * 100, den |-> Len(hp[id].habits)]

\* HabitGroup.add
GroupAdd(g, cid) == [g EXCEPT !.habits = Append(g.habits, cid)]

\* a remove that drops every child whose id is component_id
GroupRemoveAll(g, cid) ==
    [found |-> \E i \in 1..Len(g.habits) : g.habits[i] = cid,
     group |-> [g EXCEPT !.habits = SelectSeq(g.habits, LAMBDA c : c # cid)]]

\* HabitGroup.remove: [found, group]; the first child whose id is
\* component_id is popped and the loop returns
GroupRemove(g, cid) ==
    LET at == {i \in 1..Len(g.habits) : g.habits[i] = cid}
    IN IF at = {} THEN [found |-> FALSE, group |-> g]
       ELSE [found |-> TRUE,
             group |-> [g EXCEPT !.habits =
                            SubSeq(g.habits, 1, First(at) - 1)
                            \o SubSeq(g.habits, First(at) + 1, Len(g.habits))]]

---------------------------------------------------------------------------
(* Repository and use cases.  An operation on heap hp and key set st gives *)
(* [heap, storage, outcome, ret]: the objects and the keys as it leaves    *)
(* them, how it ended and the float it returned.                           *)

\* InMemoryHabitRepository.get_by_id returns an object
Stored(st, id) == id \in st

\* InMemoryHabitRepository.save
RepoSave(st, id) == st \cup {id}

\* InMemoryHabitRepository.delete: [found, storage]
RepoDelete(st, id) ==
    IF id \in st THEN [found |-> TRUE, storage |-> st \ {id}]
    ELSE [found |-> FALSE, storage |-> st]

Outcome(hp, st, o, r) == [heap |-> hp, storage |-> st, outcome |-> o, ret |-> r]

\* log_progress without the boolean branch
TrackerNewValueNoBoolean(h, value, accumulate) ==
    IF accumulate THEN HabitGetProgress(h, Today) + value
    ELSE value

\* today's value log_progress hands to add_log
TrackerNewValue(h, value, accumulate) ==
    IF h.habit_type = "boolean" THEN value
    ELSE IF accumulate THEN HabitGetProgress(h, Today) + value
    ELSE value

\* log_progress that logs on a routine's first child instead of returning
\* None for the routine
TrackerLogProgressFirstChild(hp, st, id, value, accumulate) ==
    LET to == IF Stored(st, id) /\ hp[id].kind = "group" /\ hp[id].habits # <<>>
              THEN hp[id].habits[1] ELSE id
    IN IF ~Stored(st, to) \/ hp[to].kind # "habit"
       THEN Outcome(hp, st, "none", 0)
       ELSE LET new_val == TrackerNewValue(hp[to], value, accumulate)
                r == HabitAddLog(hp[to], Today, new_val)
            IN IF r.raised
               THEN Outcome([hp EXCEPT ![to] = r.habit], st, "ValueError", 0)
               ELSE Outcome([hp EXCEPT ![to] = r.habit], RepoSave(st, to),
                            "value", new_val)

\* ProgressTracker.log_progress; outcome "value" (ret is the float returned),
\* "none" (it returned None) or "ValueError" (add_log raised, before save)
TrackerLogProgress(hp, st, id, value, accumulate) ==
    IF ~Stored(st, id) \/ hp[id].kind # "habit"
    THEN Outcome(hp, st, "none", 0)
    ELSE LET new_val == TrackerNewValue(hp[id], value, accumulate)
             r == HabitAddLog(hp[id], Today, new_val)
         IN IF r.raised
            THEN Outcome([hp EXCEPT ![id] = r.habit], st, "ValueError", 0)
            ELSE Outcome([hp EXCEPT ![id] = r.habit], RepoSave(st, id),
                         "value", new_val)

\* the accumulate argument the endpoint passes on: it passes none, so the
\* parameter's default applies whatever LogRequest.accumulate holds
EndpointAccumulate(req_accumulate) == TRUE

\* POST /habits/{habit_id}/logs; outcome "422" (LogRequest refuses a value
\* below 0), "ValueError" (add_log's exception, not caught), "404", "400" or
\* "200" (ret is the response's value)
ApiLogProgress(hp, st, id, req_value, req_accumulate) ==
    IF req_value < 0 THEN Outcome(hp, st, "422", 0)
    ELSE LET r == TrackerLogProgress(hp, st, id, req_value,
                                     EndpointAccumulate(req_accumulate))
         IN IF r.outcome = "ValueError" THEN r
            ELSE IF r.outcome = "none"
                 THEN Outcome(r.heap, r.storage,
                              IF Stored(r.storage, id) THEN "400" ELSE "404", 0)
            ELSE Outcome(r.heap, r.storage, "200", r.ret)

---------------------------------------------------------------------------
(* Analytics.  A rounded number is the integer count of its hundredths:    *)
(* 66.67 is 6667.  average_value is not modelled.                          *)

\* two decimals cut off instead of rounded
Round2Truncate(num, den) == (100 * num) \div den

\* round(num / den, 2) for num >= 0: the nearest hundredth, a tie to the
\* even one; the binary error of the float quotient is not modelled
Round2(num, den) ==
    LET q == (100 * num) \div den
        twice == 2 * ((100 * num) % den)
    IN IF twice < den THEN q
       ELSE IF twice > den THEN q + 1
       ELSE IF q % 2 = 0 THEN q ELSE q + 1

\* the entries of logs from index i on whose value reaches target
RECURSIVE CountReaching(_, _, _)
CountReaching(logs, i, target) ==
    IF i > Len(logs) THEN 0
    ELSE (IF logs[i].value >= target THEN 1 ELSE 0) + CountReaching(logs, i + 1, target)

\* a report whose completions is the number of entries
VisitHabitCountsLogs(h) ==
    [type |-> "habit", habit_type |-> h.habit_type,
     completions |-> Len(h.logs),
     current_streak |-> HabitCalculateStreak(h),
     target |-> h.target,
     total_logs |-> Len(h.logs),
     is_completed_today |-> HabitIsCompleted(h, Today)]

\* StatisticsVisitor.visit_habit
VisitHabit(h) ==
    [type |-> "habit", habit_type |-> h.habit_type,
     completions |-> CountReaching(h.logs, 1, h.target),
     current_streak |-> HabitCalculateStreak(h),
     target |-> h.target,
     total_logs |-> Len(h.logs),
     is_completed_today |-> HabitIsCompleted(h, Today)]

\* StatisticsVisitor.visit_habit_group; err when get_progress or
\* is_completed raised
VisitHabitGroup(hp, id) ==
    LET p == GroupGetProgress(hp, id, Today, Fuel)
        c == GroupIsCompleted(hp, id, Today, Fuel)
    IN [err |-> p.err \/ c.err,
        type |-> "routine",
        sub_habits_count |-> Len(hp[id].habits),
        progress_today |-> IF p.err THEN 0 ELSE Round2(p.num, p.den),
        is_completed_today |-> ~c.err /\ c.val,
        sub_habits |-> hp[id].habits]

\* accept_visitor; outcome "habit" or "routine" (report is the visitor's
\* dict), "RecursionError" or "TypeError"
AcceptVisitor(hp, id) ==
    CASE hp[id].kind = "habit" ->
             [outcome |-> "habit", report |-> VisitHabit(hp[id])]
      [] hp[id].kind = "group" ->
             LET r == VisitHabitGroup(hp, id)
             IN [outcome |-> IF r.err THEN "RecursionError" ELSE "routine",
                 report |-> r]
      [] OTHER -> [outcome |-> "TypeError", report |-> <<>>]

\* AnalyticsService.get_report; outcome "none" when it returned None
GetReport(hp, st, id) ==
    IF ~Stored(st, id) THEN [outcome |-> "none", report |-> <<>>]
    ELSE AcceptVisitor(hp, id)

\* AnalyticsService.get_all_reports: the outcome of each stored item; the
\* call raises when one of them is an exception
GetAllReports(hp, st) == [id \in st |-> AcceptVisitor(hp, id)]

\* the loop of get_summary: an item that is neither a Habit nor a
\* HabitGroup takes neither branch
SummaryCounts(hp, st) ==
    LET done(id) == ComponentIsCompleted(hp, id, Today, Fuel)
        habits == {id \in st : hp[id].kind = "habit"}
        routines == {id \in st : hp[id].kind = "group"}
    IN [err |-> \E id \in routines : done(id).err,
        total_habits |-> Cardinality(habits),
        total_routines |-> Cardinality(routines),
        completed_today |->
            Cardinality({id \in habits \cup routines : ~done(id).err /\ done(id).val})]

\* AnalyticsService.get_summary; outcome "summary" or "RecursionError"
GetSummary(hp, st) ==
    LET c == SummaryCounts(hp, st)
    IN IF c.err THEN [outcome |-> "RecursionError", total_habits |-> 0,
                      total_routines |-> 0, completed_today |-> 0,
                      completion_rate_today |-> 0]
       ELSE [outcome |-> "summary",
             total_habits |-> c.total_habits,
             total_routines |-> c.total_routines,
             completed_today |-> c.completed_today,
             completion_rate_today |->
                 IF st = {} THEN 0
                 ELSE Round2(c.completed_today * 100, Cardinality(st))]

\* HabitManager.add_to_routine; outcome "true" or "false"
ManagerAddToRoutine(hp, st, routine_id, cid) ==
    IF Stored(st, routine_id) /\ hp[routine_id].kind = "group"
    THEN Outcome([hp EXCEPT ![routine_id] = GroupAdd(hp[routine_id], cid)],
                 RepoSave(st, routine_id), "true", 0)
    ELSE Outcome(hp, st, "false", 0)

\* a delete_habit that also takes the item out of every routine's children
ManagerDeleteHabitCascade(hp, st, id) ==
    LET r == RepoDelete(st, id)
    IN Outcome([g \in DOMAIN hp |->
                   IF r.found /\ hp[g].kind = "group"
                   THEN [hp[g] EXCEPT !.habits = SelectSeq(hp[g].habits, LAMBDA c : c # id)]
                   ELSE hp[g]],
               r.storage, IF r.found THEN "true" ELSE "false", 0)

\* HabitManager.delete_habit; outcome "true" or "false".  The object stays
\* on the heap.
ManagerDeleteHabit(hp, st, id) ==
    LET r == RepoDelete(st, id)
    IN Outcome(hp, r.storage, IF r.found THEN "true" ELSE "false", 0)

\* The updates dictionary of update_habit, and the fields of
\* UpdateHabitRequest: each of name, description and target is <<>> (the
\* key is missing or its value is None) or <<v>>.
Updates(n, d, t) == [name |-> n, description |-> d, target |-> t]

\* an update_habit that sets the target without the isinstance test
ManagerUpdateHabitAnyTarget(hp, st, id, updates) ==
    IF ~Stored(st, id) THEN Outcome(hp, st, "none", 0)
    ELSE LET old == hp[id]
             new == [old EXCEPT
                       !.name = IF updates.name # <<>> THEN updates.name[1] ELSE @,
                       !.description = IF updates.description # <<>>
                                       THEN updates.description[1] ELSE @,
                       !.target = IF updates.target # <<>> THEN updates.target[1] ELSE @]
         IN Outcome([hp EXCEPT ![id] = new], RepoSave(st, id), "item", 0)

\* HabitManager.update_habit; outcome "none" (it returned None) or "item"
ManagerUpdateHabit(hp, st, id, updates) ==
    IF ~Stored(st, id) THEN Outcome(hp, st, "none", 0)
    ELSE LET old == hp[id]
             new == [old EXCEPT
                       !.name = IF updates.name # <<>> THEN updates.name[1] ELSE @,
                       !.description = IF updates.description # <<>>
                                       THEN updates.description[1] ELSE @,
                       !.target = IF old.kind = "habit" /\ updates.target # <<>>
                                  THEN updates.target[1] ELSE @]
         IN Outcome([hp EXCEPT ![id] = new], RepoSave(st, id), "item", 0)

\* UpdateHabitRequest: name has min_length 1 and target is gt 0
UpdateRequestValid(req) ==
    /\ req.name # <<>> => req.name[1] # ""
    /\ req.target # <<>> => req.target[1] > 0

\* PUT /habits/{habit_id}; outcome "422", "404" or "200"
ApiUpdateHabit(hp, st, id, req) ==
    IF ~UpdateRequestValid(req) THEN Outcome(hp, st, "422", 0)
    ELSE LET r == ManagerUpdateHabit(hp, st, id, req)
         IN Outcome(r.heap, r.storage,
                    IF r.outcome = "none" THEN "404" ELSE "200", 0)

\* HabitManager.create_habit with new_id = id and the factory's _strategies
\* = reg; outcome "habit" or "ValueError" (the constructor raised)
ManagerCreateHabit(hp, st, reg, id, tag, target) ==
    LET r == HabitNew(reg, tag, target)
    IN IF r.raised THEN Outcome(hp, st, "ValueError", 0)
       ELSE Outcome([hp EXCEPT ![id] = r.habit], RepoSave(st, id), "habit", 0)

\* HabitManager.create_routine with new_id = id
ManagerCreateRoutine(hp, st, id) ==
    Outcome([hp EXCEPT ![id] = NewGroup], RepoSave(st, id), "routine", 0)

\* CreateHabitRequest with the default name, description and category
CreateRequest(is_group, tag, target) ==
    [is_group |-> is_group, habit_type |-> tag, target |-> target]

\* CreateHabitRequest: target is gt 0
CreateRequestValid(req) == req.target > 0

\* POST /habits; outcome "422", "ValueError" or "201"; hid and gid are the
\* ids uuid4 would give a habit and a routine
ApiCreateHabit(hp, st, reg, hid, gid, req) ==
    IF ~CreateRequestValid(req) THEN Outcome(hp, st, "422", 0)
    ELSE IF req.is_group
    THEN LET r == ManagerCreateRoutine(hp, st, gid)
         IN Outcome(r.heap, r.storage, "201", 0)
    ELSE LET r == ManagerCreateHabit(hp, st, reg, hid, req.habit_type, req.target)
         IN Outcome(r.heap, r.storage,
                    IF r.outcome = "ValueError" THEN r.outcome ELSE "201", 0)

\* DELETE /habits/{habit_id}; outcome "204" or "404"
ApiDeleteHabit(hp, st, id) ==
    LET r == ManagerDeleteHabit(hp, st, id)
    IN Outcome(r.heap, r.storage, IF r.outcome = "true" THEN "204" ELSE "404", 0)

\* an add_sub_habit that does not delete the child it created
ApiAddSubHabitNoCleanUp(hp, st, reg, cid, parent_id, req) ==
    IF ~CreateRequestValid(req) THEN Outcome(hp, st, "422", 0)
    ELSE LET c == ManagerCreateHabit(hp, st, reg, cid, req.habit_type, req.target)
         IN IF c.outcome = "ValueError" THEN c
            ELSE LET a == ManagerAddToRoutine(c.heap, c.storage, parent_id, cid)
                 IN Outcome(a.heap, a.storage,
                            IF a.outcome = "true" THEN "201" ELSE "400", 0)

\* an add_sub_habit that creates the child as a routine
ApiAddSubHabitRoutineChild(hp, st, reg, cid, parent_id, req) ==
    IF ~CreateRequestValid(req) THEN Outcome(hp, st, "422", 0)
    ELSE LET c == ManagerCreateRoutine(hp, st, cid)
             a == ManagerAddToRoutine(c.heap, c.storage, parent_id, cid)
         IN IF a.outcome = "true"
            THEN Outcome(a.heap, a.storage, "201", 0)
            ELSE LET d == ManagerDeleteHabit(a.heap, a.storage, cid)
                 IN Outcome([d.heap EXCEPT ![cid] = NoItem], d.storage, "400", 0)

\* POST /habits/{habit_id}/subhabits; outcome "422", "ValueError", "400" or
\* "201"; cid is the id uuid4 gives the child.  The child is always a
\* Habit: is_group is not read.  After the clean-up no routine and no
\* repository key refers to the child object, so it is gone from the heap.
ApiAddSubHabit(hp, st, reg, cid, parent_id, req) ==
    IF ~CreateRequestValid(req) THEN Outcome(hp, st, "422", 0)
    ELSE LET c == ManagerCreateHabit(hp, st, reg, cid, req.habit_type, req.target)
         IN IF c.outcome = "ValueError" THEN c
            ELSE LET a == ManagerAddToRoutine(c.heap, c.storage, parent_id, cid)
                 IN IF a.outcome = "true"
                    THEN Outcome(a.heap, a.storage, "201", 0)
                    ELSE LET d == ManagerDeleteHabit(a.heap, a.storage, cid)
                         IN Outcome([d.heap EXCEPT ![cid] = NoItem], d.storage,
                                    "400", 0)

---------------------------------------------------------------------------
(* Calls *)

Call(op, id, child, d, v, acc, o, r) ==
    [op |-> op, id |-> id, child |-> child, date |-> d, value |-> v,
     accumulate |-> acc, outcome |-> o, ret |-> r]

NoCall == Call("none", AbsentId, AbsentId, 0, 0, FALSE, "none", 0)

\* the exploration stops at MaxLogs entries per habit, MaxChildren children
\* per routine and the values of Explored
Bounded(hp) ==
    \A id \in Ids :
        /\ Len(hp[id].logs) <= MaxLogs
        /\ Len(hp[id].habits) <= MaxChildren
        /\ \A i \in 1..Len(hp[id].logs) : hp[id].logs[i].value \in Explored

\* habit.add_log(d, v) on a Habit object
AddLogCall(H, D, V) ==
    \E id \in H, d \in D, v \in V :
        /\ heap[id].kind = "habit"
        /\ LET r == HabitAddLog(heap[id], d, v)
           IN /\ heap' = [heap EXCEPT ![id] = r.habit]
              /\ last' = Call("add_log", id, AbsentId, d, v, FALSE,
                              IF r.raised THEN "ValueError" ELSE "none", 0)
        /\ Bounded(heap')
        /\ UNCHANGED <<storage, strategies>>

\* tracker.log_progress(id, v, accumulate)
TrackerCall(I, V) ==
    \E id \in I, v \in V, acc \in BOOLEAN :
        LET r == TrackerLogProgress(heap, storage, id, v, acc)
        IN /\ heap' = r.heap
           /\ storage' = r.storage
           /\ last' = Call("log_progress", id, AbsentId, Today, v, acc,
                           r.outcome, r.ret)
           /\ Bounded(heap')
           /\ UNCHANGED strategies

\* POST /habits/{id}/logs with LogRequest(value, accumulate)
ApiLogCall(I, V) ==
    \E id \in I, v \in V, acc \in BOOLEAN :
        LET r == ApiLogProgress(heap, storage, id, v, acc)
        IN /\ heap' = r.heap
           /\ storage' = r.storage
           /\ last' = Call("post_logs", id, AbsentId, Today, v, acc,
                           r.outcome, r.ret)
           /\ Bounded(heap')
           /\ UNCHANGED strategies

\* manager.add_to_routine(routine_id, component), the component any object
AddToRoutineCall(I, C) ==
    \E rid \in I, cid \in C :
        /\ heap[cid].kind # "none"
        /\ LET r == ManagerAddToRoutine(heap, storage, rid, cid)
           IN /\ heap' = r.heap
              /\ storage' = r.storage
              /\ last' = Call("add_to_routine", rid, cid, 0, 0, FALSE,
                              r.outcome, r.ret)
        /\ Bounded(heap')
        /\ UNCHANGED strategies

\* group.remove(component_id) on a HabitGroup object
RemoveCall(I, C) ==
    \E gid \in I, cid \in C :
        /\ heap[gid].kind = "group"
        /\ LET r == GroupRemove(heap[gid], cid)
           IN /\ heap' = [heap EXCEPT ![gid] = r.group]
              /\ last' = Call("remove", gid, cid, 0, 0, FALSE,
                              IF r.found THEN "true" ELSE "false", 0)
        /\ UNCHANGED <<storage, strategies>>

\* str(uuid.uuid4()): an id no object carries yet.  Which one it is does
\* not matter to the program, so the first of IdOrder among I is taken.
IdOrder == <<"h1", "h2", "h3", "g1", "g2", "x1">>
Free(hp, I) == {id \in I : hp[id].kind = "none"}
FreshId(hp, I) ==
    IdOrder[First({k \in 1..Len(IdOrder) : IdOrder[k] \in Free(hp, I)})]

\* Habit(id, ..., habit_type, target) with a fresh id; no object comes to
\* exist when __post_init__ raises
ConstructCall(I, T) ==
    \E tag \in T :
        LET id == FreshId(heap, I)
            r == HabitNew(strategies, tag, One)
        IN /\ Free(heap, I) # {}
           /\ heap' = IF r.raised THEN heap ELSE [heap EXCEPT ![id] = r.habit]
           /\ last' = Call("Habit", id, AbsentId, 0, One, FALSE,
                           IF r.raised THEN "ValueError" ELSE "none", 0)
                      @@ [habit_type |-> tag]
           /\ UNCHANGED <<storage, strategies>>

\* HabitStrategyFactory.register_strategy(habit_type, strategy_class)
RegisterCall(T, C) ==
    \E tag \in T, cls \in C :
        /\ strategies' = FactoryRegisterStrategy(strategies, tag, cls)
        /\ last' = Call("register_strategy", AbsentId, AbsentId, 0, 0, FALSE,
                        "none", 0)
                   @@ [habit_type |-> tag, strategy_class |-> cls]
        /\ UNCHANGED <<heap, storage>>

\* repo.save(component) on an object that exists
RepoSaveCall(I) ==
    \E id \in I :
        /\ heap[id].kind # "none"
        /\ storage' = RepoSave(storage, id)
        /\ last' = Call("save", id, AbsentId, 0, 0, FALSE, "none", 0)
        /\ UNCHANGED <<heap, strategies>>

\* manager.delete_habit(id)
DeleteCall(I) ==
    \E id \in I :
        LET r == ManagerDeleteHabit(heap, storage, id)
        IN /\ heap' = r.heap
           /\ storage' = r.storage
           /\ last' = Call("delete_habit", id, AbsentId, 0, 0, FALSE,
                           r.outcome, r.ret)
           /\ UNCHANGED strategies

\* manager.update_habit(id, updates)
UpdateCall(I, N, D, T) ==
    \E id \in I, n \in N, d \in D, t \in T :
        LET r == ManagerUpdateHabit(heap, storage, id, Updates(n, d, t))
        IN /\ heap' = r.heap
           /\ storage' = r.storage
           /\ last' = Call("update_habit", id, AbsentId, 0, 0, FALSE,
                           r.outcome, r.ret)
                      @@ [updates |-> Updates(n, d, t)]
           /\ UNCHANGED strategies

\* PUT /habits/{id} with UpdateHabitRequest(name, description, target)
ApiUpdateCall(I, N, D, T) ==
    \E id \in I, n \in N, d \in D, t \in T :
        LET r == ApiUpdateHabit(heap, storage, id, Updates(n, d, t))
        IN /\ heap' = r.heap
           /\ storage' = r.storage
           /\ last' = Call("put_habit", id, AbsentId, 0, 0, FALSE,
                           r.outcome, r.ret)
                      @@ [updates |-> Updates(n, d, t)]
           /\ UNCHANGED strategies

\* POST /habits with CreateHabitRequest(is_group, habit_type, target)
ApiCreateCall(G, T, V) ==
    \E is_group \in G, tag \in T, target \in V :
        LET req == CreateRequest(is_group, tag, target)
            hid == FreshId(heap, HabitIds)
            gid == FreshId(heap, GroupIds)
            r == ApiCreateHabit(heap, storage, strategies, hid, gid, req)
        IN /\ Free(heap, IF is_group THEN GroupIds ELSE HabitIds) # {}
           /\ heap' = r.heap
           /\ storage' = r.storage
           /\ last' = Call("post_habits", IF is_group THEN gid ELSE hid,
                           AbsentId, 0, target, FALSE, r.outcome, r.ret)
           /\ UNCHANGED strategies

\* POST /habits/{id}/subhabits with CreateHabitRequest(habit_type, target)
ApiAddSubHabitCall(I, T, V) ==
    \E id \in I, tag \in T, target \in V :
        LET req == CreateRequest(FALSE, tag, target)
            cid == FreshId(heap, HabitIds)
            r == ApiAddSubHabit(heap, storage, strategies, cid, id, req)
        IN /\ Free(heap, HabitIds) # {}
           /\ heap' = r.heap
           /\ storage' = r.storage
           /\ last' = Call("post_subhabits", id, cid, 0, target, FALSE,
                           r.outcome, r.ret)
           /\ Bounded(heap')
           /\ UNCHANGED strategies

\* DELETE /habits/{id}
ApiDeleteCall(I) ==
    \E id \in I :
        LET r == ApiDeleteHabit(heap, storage, id)
        IN /\ heap' = r.heap
           /\ storage' = r.storage
           /\ last' = Call("delete_habits", id, AbsentId, 0, 0, FALSE,
                           r.outcome, r.ret)
           /\ UNCHANGED strategies

---------------------------------------------------------------------------
(* Logging on one habit: a stored habit of any type in a routine, logged   *)
(* through the entity, the tracker and the endpoint.                       *)

LogDates == {Today - 1, Today}
LogValues == {0 - 1, 0, 1, One, DayLimit}
LogIds == {"h1", "g1", AbsentId}

LogInit ==
    /\ \E tag \in StrategyTags, target \in Targets :
           heap = [id \in Ids |->
                     CASE id = "h1" -> NewHabit(tag, target)
                       [] id = "g1" -> GroupAdd(NewGroup, "h1")
                       [] OTHER -> NoItem]
    /\ storage = {"h1", "g1"}
    /\ last = NoCall
    /\ strategies = InitialStrategies

LogAddLog == AddLogCall({"h1"}, LogDates, LogValues)
LogTracker == TrackerCall(LogIds, LogValues)
LogEndpoint == ApiLogCall(LogIds, LogValues)

LogNext == LogAddLog \/ LogTracker \/ LogEndpoint

LogSpec == LogInit /\ [][LogNext]_vars

---------------------------------------------------------------------------
(* Streaks: one habit of any type and target, any history in the window.   *)

StreakValues == {One, 2 * One}

StreakInit ==
    /\ \E tag \in StrategyTags, target \in Targets :
           heap = [id \in Ids |-> IF id = "h1" THEN NewHabit(tag, target) ELSE NoItem]
    /\ storage = {"h1"}
    /\ last = NoCall
    /\ strategies = InitialStrategies

StreakAddLog == AddLogCall({"h1"}, Dates, StreakValues)

StreakNext == StreakAddLog

StreakSpec == StreakInit /\ [][StreakNext]_vars

---------------------------------------------------------------------------
(* Routines: the routine g1, the routine g2 and three boolean habits; g1   *)
(* and g2 take any of g2 and the habits as a child, any number of times.   *)

TreeInit ==
    /\ heap = [id \in Ids |-> IF id \in GroupIds THEN NewGroup
                              ELSE IF id \in HabitIds THEN NewHabit("boolean", One)
                              ELSE NoItem]
    /\ storage = GroupIds \cup HabitIds
    /\ last = NoCall
    /\ strategies = InitialStrategies

TreeAddToRoutine == AddToRoutineCall(GroupIds, Ids \ {"g1"})
TreeAddLog == AddLogCall(HabitIds, {Today}, {One})

TreeNext == TreeAddToRoutine \/ TreeAddLog

TreeSpec == TreeInit /\ [][TreeNext]_vars

---------------------------------------------------------------------------
(* Children of a routine: the routines g1 and g2 take h1, h2 and g2 as a   *)
(* child, any number of times, and lose them again.                        *)

RemoveChildren == {"h1", "h2", "g2"}

RemoveAdd == AddToRoutineCall(GroupIds, RemoveChildren)
RemoveRemove == RemoveCall(GroupIds, RemoveChildren \cup {"h3", AbsentId})

RemoveNext == RemoveAdd \/ RemoveRemove

RemoveSpec == TreeInit /\ [][RemoveNext]_vars

---------------------------------------------------------------------------
(* The strategy factory: habits are constructed with registered and        *)
(* unregistered type values while strategies are registered.               *)

FactoryTypes == {"boolean", "BOOLEAN", "numeric", "weekly"}
FactoryRegistered == {"boolean", "BOOLEAN", "weekly"}
FactoryClasses == {"NumericHabitStrategy", "TimeBasedHabitStrategy"}

FactoryInit ==
    /\ heap = [id \in Ids |-> NoItem]
    /\ storage = {}
    /\ last = NoCall
    /\ strategies = InitialStrategies

FactoryConstruct == ConstructCall({"h1", "h2"}, FactoryTypes)
FactoryRegister == RegisterCall(FactoryRegistered, FactoryClasses)

FactoryNext == FactoryConstruct \/ FactoryRegister

FactorySpec == FactoryInit /\ [][FactoryNext]_vars

---------------------------------------------------------------------------
(* Reports: two boolean habits, a routine and an object of a foreign       *)
(* component class are saved to and deleted from an empty repository,      *)
(* while the habits are logged and put into the routine.                   *)

ReportIds == {"h1", "h2", "g1", "x1"}

ReportInit ==
    /\ heap = [id \in Ids |->
                 CASE id \in {"h1", "h2"} -> NewHabit("boolean", One)
                   [] id = "g1" -> NewGroup
                   [] id = "x1" -> OtherItem
                   [] OTHER -> NoItem]
    /\ storage = {}
    /\ last = NoCall
    /\ strategies = InitialStrategies

ReportSave == RepoSaveCall(ReportIds)
ReportDelete == DeleteCall(ReportIds)
ReportAddLog == AddLogCall({"h1", "h2"}, {Today}, {One})
ReportAddToRoutine == AddToRoutineCall({"g1"}, {"h1", "h2"})

ReportNext == ReportSave \/ ReportDelete \/ ReportAddLog \/ ReportAddToRoutine

ReportSpec == ReportInit /\ [][ReportNext]_vars

---------------------------------------------------------------------------
(* Updates: the stored habit h1 of any type, the stored routine g1 that    *)
(* holds it and the habit h2 that is not stored are updated through the    *)
(* manager and the endpoint, while h1 is logged.                           *)

UpdateIds == {"h1", "h2", "g1", AbsentId}
UpdateNames == {<<>>, <<"n1">>}
UpdateDescriptions == {<<>>, <<"d1">>}
UpdateTargets == {<<>>, <<One>>, <<2 * One>>}

UpdateInit ==
    /\ \E tag \in StrategyTags :
           heap = [id \in Ids |->
                     CASE id = "h1" -> NewHabit(tag, One)
                       [] id = "h2" -> NewHabit(tag, One)
                       [] id = "g1" -> GroupAdd(NewGroup, "h1")
                       [] OTHER -> NoItem]
    /\ storage = {"h1", "g1"}
    /\ last = NoCall
    /\ strategies = InitialStrategies

UpdateManager == UpdateCall(UpdateIds, UpdateNames, UpdateDescriptions, UpdateTargets)
UpdateEndpoint ==
    ApiUpdateCall(UpdateIds, UpdateNames \cup {<<"">>}, UpdateDescriptions,
                  UpdateTargets \cup {<<0>>})
UpdateAddLog == AddLogCall({"h1"}, {Today}, {One})

UpdateNext == UpdateManager \/ UpdateEndpoint \/ UpdateAddLog

UpdateSpec == UpdateInit /\ [][UpdateNext]_vars

---------------------------------------------------------------------------
(* The endpoints on an empty repository: habits and routines are created,  *)
(* sub-habits are added, items are deleted and progress is logged.         *)

ApiTypes == {"boolean", "numeric"}
ApiParents == {"g1", "h1", AbsentId}
ApiDeleted == {"h1", "g1", AbsentId}
ApiLogged == {"h1", "h2", "g1"}

ApiInit ==
    /\ heap = [id \in Ids |-> NoItem]
    /\ storage = {}
    /\ last = NoCall
    /\ strategies = InitialStrategies

ApiCreate == ApiCreateCall(BOOLEAN, ApiTypes, {0, One})
ApiAddSub == ApiAddSubHabitCall(ApiParents, ApiTypes, {One})
ApiDelete == ApiDeleteCall(ApiDeleted)
ApiLog == ApiLogCall(ApiLogged, {One})

ApiNext == ApiCreate \/ ApiAddSub \/ ApiDelete \/ ApiLog

ApiSpec == ApiInit /\ [][ApiNext]_vars

---------------------------------------------------------------------------
(* The hierarchy the endpoints build: on an empty repository habits and    *)
(* routines are created, updated and deleted, sub-habits are added to      *)
(* routines, habits and missing ids, and progress is logged.               *)

HierarchyParents == {"g1", "g2", "h1", AbsentId}
HierarchyUpdated == {"g1", "h1"}
HierarchyDeleted == {"h1", "g1"}
HierarchyLogged == {"h1", "g1"}

HierarchyCreate == ApiCreateCall(BOOLEAN, {"boolean"}, {One})
HierarchyAddSub == ApiAddSubHabitCall(HierarchyParents, {"boolean"}, {One})
HierarchyUpdate ==
    ApiUpdateCall(HierarchyUpdated, {<<>>, <<"n1">>}, {<<>>}, {<<>>, <<2 * One>>})
HierarchyDelete == ApiDeleteCall(HierarchyDeleted)
HierarchyLog == ApiLogCall(HierarchyLogged, {One})

HierarchyNext ==
    \/ HierarchyCreate
    \/ HierarchyAddSub
    \/ HierarchyUpdate
    \/ HierarchyDelete
    \/ HierarchyLog

HierarchySpec == ApiInit /\ [][HierarchyNext]_vars

---------------------------------------------------------------------------
(* Statistics: one stored habit of any type, logged through the entity on  *)
(* any date of the window and through the tracker, its target updated      *)
(* through the manager, which takes any number as a target.                *)

StatsTargets == {<<0>>, <<One>>, <<2 * One>>}

StatsAddLog == AddLogCall({"h1"}, Dates, StreakValues)
StatsTracker == TrackerCall({"h1"}, {One})
StatsUpdate == UpdateCall({"h1"}, {<<>>}, {<<>>}, StatsTargets)

StatsNext == StatsAddLog \/ StatsTracker \/ StatsUpdate

StatsSpec == StreakInit /\ [][StatsNext]_vars

---------------------------------------------------------------------------
(* Claims *)

Habits == {id \in Ids : heap[id].kind = "habit"}
Groups == {id \in Ids : heap[id].kind = "group"}

\* habit h has an entry dated d whose value meets the target
Meets(h, d) ==
    \E i \in 1..Len(h.logs) : h.logs[i].date = d /\ h.logs[i].value >= h.target

\* the largest k with today, today-1, ..., today-(k-1) all met
ConsecutiveDays(h) ==
    CHOOSE k \in 0..(Today + 1) :
        /\ \A j \in 0..(k - 1) : Meets(h, Today - j)
        /\ ~Meets(h, Today - k)

\* C1: for every habit type, target and log history, calculate_streak()
\* is the number of consecutive days ending today that have a log meeting
\* the target; a day without a log or below target ends the count, and
\* older disconnected runs are not counted.
C1_StreakIsConsecutiveDays ==
    \A id \in Habits : HabitCalculateStreak(heap[id]) = ConsecutiveDays(heap[id])

\* today and yesterday met, the day before missing, the day before that met
C1_Witness ==
    /\ Meets(heap["h1"], Today) /\ Meets(heap["h1"], Today - 1)
    /\ Dated(heap["h1"].logs, Today - 2) = {}
    /\ Meets(heap["h1"], Today - 3)
    /\ HabitCalculateStreak(heap["h1"]) = 2

\* is_completed(d) of component id returned True
Completed(id, d) ==
    LET r == ComponentIsCompleted(heap, id, d, Fuel) IN ~r.err /\ r.val

\* is_completed(d) of component id returned
Answers(id, d) == ~ComponentIsCompleted(heap, id, d, Fuel).err

ChildIndices(g) == 1..Len(heap[g].habits)

\* C2: a routine's is_completed(d) is true iff the routine has a child and
\* every child's is_completed(d) is true; an empty routine is never completed.
C2_GroupCompletedIffAllChildren ==
    \A g \in Groups, d \in Dates :
        LET r == GroupIsCompleted(heap, g, d, Fuel)
        IN (~r.err /\ r.val) <=>
              /\ heap[g].habits # <<>>
              /\ \A i \in ChildIndices(g) : Completed(heap[g].habits[i], d)

\* a completed routine whose children are a habit and a routine
C2_Witness ==
    /\ heap["g1"].habits = <<"h1", "g2">>
    /\ GroupIsCompleted(heap, "g1", Today, Fuel) = Returned(TRUE)
    /\ GroupIsCompleted(heap, "g1", Today - 1, Fuel) = Returned(FALSE)

\* C3: a routine's get_progress(d) is 100 * (direct children completed on
\* d) / (direct children), within 0..100, and 0.0 for a routine without
\* children.  (Stated where every child's is_completed returns: there
\* get_progress returns too.)
C3_GroupProgressIsShareOfChildren ==
    \A g \in Groups, d \in Dates :
        (\A i \in ChildIndices(g) : Answers(heap[g].habits[i], d)) =>
            LET p == GroupGetProgress(heap, g, d, Fuel)
                done == Cardinality({i \in ChildIndices(g) :
                                        Completed(heap[g].habits[i], d)})
            IN /\ ~p.err
               /\ p.den > 0
               /\ p.num * Len(heap[g].habits) = 100 * done * p.den
               /\ 0 <= p.num /\ p.num <= 100 * p.den
               /\ heap[g].habits = <<>> => p.num = 0

\* a routine whose first child is not completed and whose second is
C3_Witness ==
    /\ Len(heap["g1"].habits) = 2
    /\ ~Completed(heap["g1"].habits[1], Today)
    /\ Completed(heap["g1"].habits[2], Today)
    /\ GroupGetProgress(heap, "g1", Today, Fuel) = [err |-> FALSE, num |-> 100, den |-> 2]

\* A = g1 = [h1, B], B = g2 = [h2, h3], h1 and h2 completed today, h3 not
NestedScenario ==
    /\ heap["g1"].habits = <<"h1", "g2">>
    /\ heap["g2"].habits = <<"h2", "h3">>
    /\ HabitIsCompleted(heap["h1"], Today)
    /\ HabitIsCompleted(heap["h2"], Today)
    /\ ~HabitIsCompleted(heap["h3"], Today)

\* the fraction p is the percentage n
IsPercent(p, n) == ~p.err /\ p.num = n * p.den

\* C4: progress rolls up over direct children, a child routine counting as
\* one child that is completed iff its own is_completed holds: in the nested
\* scenario B's progress is 50, B is not completed and A's progress is 50.
C4_NestedRollUp ==
    NestedScenario =>
        /\ IsPercent(GroupGetProgress(heap, "g2", Today, Fuel), 50)
        /\ GroupIsCompleted(heap, "g2", Today, Fuel) = Returned(FALSE)
        /\ IsPercent(GroupGetProgress(heap, "g1", Today, Fuel), 50)
        /\ GroupIsCompleted(heap, "g1", Today, Fuel) = Returned(FALSE)

C4_Witness == NestedScenario

LogOps == {"log_progress", "post_logs"}

\* the last call was op on a stored habit
OnStoredHabit(l, hp, st) == l.id \in st /\ hp[l.id].kind = "habit"

\* the last call returned normally with a value
Succeeded(l) ==
    \/ l.op = "add_log" /\ l.outcome = "none"
    \/ l.op = "log_progress" /\ l.outcome = "value"
    \/ l.op = "post_logs" /\ l.outcome = "200"

\* C5: add_log(d, v) with a value the habit type's validate_value accepts,
\* followed by get_progress(d), gives exactly v, whatever was logged
\* before; get_progress of a date without a log gives 0.0.
C5_AddLogThenGetProgress ==
    /\ (last.op = "add_log"
        /\ StrategyValidateValue(heap[last.id].strategy, last.value)) =>
           /\ last.outcome = "none"
           /\ HabitGetProgress(heap[last.id], last.date) = last.value
    /\ \A id \in Habits, d \in Dates :
           Dated(heap[id].logs, d) = {} => HabitGetProgress(heap[id], d) = 0

\* an accepted add_log on the date of an older entry, with another date
\* logged since and a value that is not 0.0
C5_Witness ==
    /\ last.op = "add_log" /\ last.outcome = "none" /\ last.value = 1
    /\ Len(heap[last.id].logs) = 2
    /\ heap[last.id].logs[1].date = last.date
    /\ HabitGetProgress(heap[last.id], Today - 1) # HabitGetProgress(heap[last.id], Today)

\* no two entries of the logs carry the same date
UniqueDates(logs) ==
    \A i, j \in 1..Len(logs) : logs[i].date = logs[j].date => i = j

DatesOf(logs) == [i \in 1..Len(logs) |-> logs[i].date]

\* the value the last call handed to add_log
Written(l) == IF l.op = "add_log" THEN l.value ELSE l.ret

\* a step that logs a date the habit already has an entry for
Relogs(id) ==
    /\ last'.id = id /\ Succeeded(last')
    /\ Dated(heap[id].logs, last'.date) # {}

\* C6: after any add_log and log_progress calls a habit's logs hold at most
\* one entry per date: logging a date that has an entry overwrites its value
\* and leaves the number of entries (and their dates) as they were.
C6_OneEntryPerDate ==
    [][\A id \in HabitIds :
          /\ UniqueDates(heap'[id].logs)
          /\ Relogs(id) =>
                /\ Len(heap'[id].logs) = Len(heap[id].logs)
                /\ DatesOf(heap'[id].logs) = DatesOf(heap[id].logs)
                /\ HabitGetProgress(heap'[id], last'.date) = Written(last')]_vars

\* an accumulating log_progress on a day already logged, two dates in the logs
C6_Witness ==
    /\ last.op = "log_progress" /\ last.outcome = "value" /\ last.accumulate
    /\ last.value > 0 /\ last.ret > last.value
    /\ Len(heap[last.id].logs) = 2

\* the range the spec gives for a habit type
InRange(tag, v) ==
    CASE tag = "boolean" -> v = 0 \/ v = One
      [] tag = "numeric" -> v >= 0
      [] tag = "time"    -> v >= 0 /\ v <= MinutesPerDay * Scale

\* C7: every value stored in a habit's logs is in the range of the habit's
\* type (0.0 or 1.0 for boolean, >= 0.0 for numeric, 0.0..1440.0 for
\* time-bounded), also after accumulating log_progress calls.
C7_StoredValuesInRange ==
    \A id \in Habits :
        \A i \in 1..Len(heap[id].logs) :
            InRange(heap[id].habit_type, heap[id].logs[i].value)

\* a time-bounded habit at 1440.0 today, whose accumulating log_progress
\* of a value that is itself in range was refused for the sum
C7_Witness ==
    /\ last.op = "log_progress" /\ last.accumulate
    /\ last.value = One /\ last.outcome = "ValueError"
    /\ heap[last.id].habit_type = "time"
    /\ HabitGetProgress(heap[last.id], Today) = DayLimit

\* C8: when the value fails the validation, add_log, and log_progress that
\* calls it, raise the validation error and write nothing: every object's
\* logs and the repository are as before the call.
C8_RejectedWriteChangesNothing ==
    [][/\ (last'.op = "add_log"
           /\ ~InRange(heap[last'.id].habit_type, last'.value)) =>
              last'.outcome = "ValueError"
       /\ (last'.op = "log_progress" /\ OnStoredHabit(last', heap, storage)
           /\ ~InRange(heap[last'.id].habit_type,
                       TrackerNewValue(heap[last'.id], last'.value, last'.accumulate))) =>
              last'.outcome = "ValueError"
       /\ last'.outcome = "ValueError" => heap' = heap /\ storage' = storage]_vars

\* the endpoint's call refused on a habit that holds two entries
C8_Witness ==
    /\ last.op = "post_logs" /\ last.outcome = "ValueError"
    /\ Len(heap[last.id].logs) = 2

\* C9: a boolean habit never accumulates, whatever the accumulate flag:
\* after a log_progress call with an accepted value today's value is the
\* value of that call, and the habit is completed iff that value meets the
\* target.
C9_BooleanNeverAccumulates ==
    (/\ last.op \in LogOps
     /\ OnStoredHabit(last, heap, storage)
     /\ heap[last.id].habit_type = "boolean"
     /\ last.value \in {0, One}) =>
        /\ Succeeded(last)
        /\ last.ret = last.value
        /\ HabitGetProgress(heap[last.id], Today) = last.value
        /\ HabitIsCompleted(heap[last.id], Today) = (last.value >= heap[last.id].target)

\* an accumulating log_progress of 0.0 on a boolean habit with target 1.0
\* that has entries for two days
C9_Witness ==
    /\ last.op = "log_progress" /\ last.accumulate /\ last.value = 0
    /\ last.outcome = "value"
    /\ heap[last.id].habit_type = "boolean" /\ heap[last.id].target = One
    /\ Len(heap[last.id].logs) = 2
    /\ ~HabitIsCompleted(heap[last.id], Today)

\* C10: for a habit that is not boolean the caller of the log operation
\* chooses the policy: accumulate = true stores today's value plus the
\* requested one, accumulate = false stores exactly the requested one; for
\* the log endpoint (LogRequest.accumulate) as for log_progress.
C10_CallerChoosesPolicy ==
    [][(/\ last'.op \in LogOps
        /\ Succeeded(last')
        /\ heap[last'.id].habit_type # "boolean") =>
           HabitGetProgress(heap'[last'.id], Today) =
               IF last'.accumulate
               THEN HabitGetProgress(heap[last'.id], Today) + last'.value
               ELSE last'.value]_vars

\* habit h without its entries dated after today
WithoutFuture(h) ==
    [h EXCEPT !.logs = SelectSeq(h.logs, LAMBDA l : l.date <= Today)]

\* C19: a log dated after today is ignored by calculate_streak: whatever
\* entries dated after today a history holds, the streak is the streak of
\* the history without them, counted from today backwards.
C19_FutureLogsIgnored ==
    \A id \in Habits :
        /\ HabitCalculateStreak(heap[id]) = HabitCalculateStreak(WithoutFuture(heap[id]))
        /\ HabitCalculateStreak(heap[id]) = ConsecutiveDays(WithoutFuture(heap[id]))

\* an entry dated tomorrow that meets the target was just added to a habit
\* whose streak of two days ends today
C19_Witness ==
    /\ last.op = "add_log" /\ last.outcome = "none" /\ last.date = Today + 1
    /\ Meets(heap["h1"], Today + 1)
    /\ HabitCalculateStreak(heap["h1"]) = 2

\* C17: in the report of a stored leaf, completions is the number of
\* logged days, over the whole history, whose value reaches the current
\* target, total_logs the number of logged days, current_streak the value
\* of calculate_streak() and the completed-today flag the value of
\* is_completed(today).
C17_LeafReport ==
    \A id \in Habits \cap storage :
        LET h == heap[id]
            r == GetReport(heap, storage, id)
        IN /\ r.outcome = "habit"
           /\ r.report.completions = Cardinality({d \in Dates : Meets(h, d)})
           /\ r.report.total_logs = Cardinality({d \in Dates : Dated(h.logs, d) # {}})
           /\ r.report.current_streak = HabitCalculateStreak(h)
           /\ r.report.current_streak = ConsecutiveDays(h)
           /\ r.report.is_completed_today = HabitIsCompleted(h, Today)

\* three logged days of which two reach the target, one of them today
C17_Witness ==
    LET r == GetReport(heap, storage, "h1")
    IN /\ r.outcome = "habit"
       /\ r.report.total_logs = 3
       /\ r.report.completions = 2
       /\ r.report.current_streak = 1
       /\ r.report.is_completed_today

\* the number of children of routine g whose id is c
Occurrences(g, c) == Cardinality({i \in 1..Len(g.habits) : g.habits[i] = c})

\* sequence s without its element at index k
Without(s, k) == [i \in 1..(Len(s) - 1) |-> IF i < k THEN s[i] ELSE s[i + 1]]

C15_GroupOrAbsentRejected ==
    [][(/\ last'.op \in {"log_progress", "post_logs"}
        /\ (last'.id \notin storage \/ heap[last'.id].kind = "group"))
       => /\ heap' = heap
          /\ storage' = storage
          /\ last'.op = "log_progress" => last'.outcome = "none"
          /\ last'.op = "post_logs" =>
                last'.outcome = IF last'.value < 0 THEN "422"
                                ELSE IF last'.id \in storage THEN "400"
                                ELSE "404"
    ]_vars

\* the endpoint answered 400 for the routine g1, whose child h1 has a log
\* for today that a write through the routine would have changed
C15_Witness ==
    /\ last.op = "post_logs" /\ last.id = "g1" /\ last.outcome = "400"
    /\ heap["g1"].habits = <<"h1">>
    /\ heap["h1"].habit_type = "numeric"
    /\ last.value = One
    /\ HabitGetProgress(heap["h1"], Today) = 1

\* C13 as stated: the lookup of an unregistered tag raises and, at any
\* time, every Habit holds the strategy registered under its type tag.
C13_StrategyIsTheRegisteredOne ==
    /\ (last.op = "Habit" /\ Lower(last.habit_type) \notin DOMAIN strategies)
           => last.outcome = "ValueError"
    /\ \A id \in Habits :
           /\ Lower(heap[id].habit_type) \in DOMAIN strategies
           /\ heap[id].strategy = strategies[Lower(heap[id].habit_type)]

\* C13: the lookup of a tag that is not registered raises the unknown
\* habit type error, no default strategy is taken and no Habit comes to
\* exist; a constructed Habit holds the strategy that is registered under
\* its lower-cased type tag at that moment, and keeps it whatever is
\* registered afterwards.
C13_StrategyFromLookup ==
    [][/\ last'.op = "Habit" =>
            IF Lower(last'.habit_type) \notin DOMAIN strategies
            THEN last'.outcome = "ValueError" /\ heap' = heap
            ELSE /\ last'.outcome = "none"
                 /\ heap[last'.id].kind = "none"
                 /\ heap'[last'.id].kind = "habit"
                 /\ heap'[last'.id].habit_type = last'.habit_type
                 /\ heap'[last'.id].strategy = strategies[Lower(last'.habit_type)]
       /\ \A id \in Habits : heap'[id] = heap[id]
    ]_vars

\* a Habit of the unregistered type "weekly" was refused while a Habit
\* constructed earlier exists
C13_Witness ==
    /\ last.op = "Habit" /\ last.habit_type = "weekly"
    /\ last.outcome = "ValueError"
    /\ "weekly" \notin DOMAIN strategies
    /\ heap["h1"].kind = "habit" /\ heap["h2"].kind = "none"

\* the stored leaves and routines whose is_completed(today) is true
CompletedToday == {id \in storage \cap (Habits \cup Groups) : Completed(id, Today)}

\* r, in hundredths, is num / den rounded to two decimals
IsRounded(r, num, den) ==
    /\ 2 * (r * den - 100 * num) <= den
    /\ 2 * (100 * num - r * den) <= den

\* C11: get_summary gives completion_rate_today = completed_today /
\* total_items * 100 rounded to two decimals, total_items the number of
\* stored items and completed_today the number of stored leaves and
\* routines completed today; an empty repository gives 0.0 and no fault;
\* two leaves and a routine stored, one leaf and the routine completed,
\* give 66.67.
C11_SummaryRate ==
    LET s == GetSummary(heap, storage)
        n == Cardinality(storage)
    IN /\ s.outcome = "summary"
       /\ s.completed_today = Cardinality(CompletedToday)
       /\ storage = {} => s.completion_rate_today = 0
       /\ storage # {} =>
              IsRounded(s.completion_rate_today, 100 * s.completed_today, n)
       /\ (/\ storage = {"h1", "h2", "g1"}
           /\ CompletedToday = {"h1", "g1"}) => s.completion_rate_today = 6667

\* two leaves and a routine are stored; one leaf and the routine, which
\* holds that leaf, are completed today
C11_Witness ==
    /\ storage = {"h1", "h2", "g1"}
    /\ CompletedToday = {"h1", "g1"}
    /\ GetSummary(heap, storage).completion_rate_today = 6667

\* C12: every analytics entry point that walks items fails with a typed
\* error on a stored item that is neither a Habit nor a HabitGroup:
\* get_report of it, get_all_reports and get_summary raise TypeError and
\* return no report.
C12_UnknownVariantFails ==
    \A id \in storage :
        heap[id].kind = "other" =>
            /\ GetReport(heap, storage, id).outcome = "TypeError"
            /\ \E i \in storage : GetAllReports(heap, storage)[i].outcome = "TypeError"
            /\ GetSummary(heap, storage).outcome = "TypeError"

\* the fields no update may change
SameFixedFields(old, new) ==
    /\ new.kind = old.kind
    /\ new.created_at = old.created_at
    /\ new.category = old.category
    /\ new.habit_type = old.habit_type
    /\ new.strategy = old.strategy
    /\ new.logs = old.logs
    /\ new.habits = old.habits

\* C16: update_habit changes only name and description, and target only
\* of a leaf: every object keeps its key (its id), created_at, category,
\* habit_type, logs and children, a field without a value in the request
\* keeps its value, a target given for a routine is ignored, and an update
\* of an id that is not stored returns None (404 at the endpoint) and
\* leaves objects and repository as they are.
C16_UpdateFrame ==
    [][last'.op \in {"update_habit", "put_habit"} =>
        LET id == last'.id
            u == last'.updates
        IN /\ storage' = storage
           /\ IF id \notin storage \/ last'.outcome = "422"
              THEN /\ heap' = heap
                   /\ last'.outcome \in {"none", "404", "422"}
                   /\ (id \notin storage /\ last'.op = "update_habit")
                          => last'.outcome = "none"
              ELSE /\ last'.outcome \in {"item", "200"}
                   /\ \A o \in Ids \ {id} : heap'[o] = heap[o]
                   /\ SameFixedFields(heap[id], heap'[id])
                   /\ heap'[id].name = IF u.name = <<>> THEN heap[id].name
                                       ELSE u.name[1]
                   /\ heap'[id].description =
                          IF u.description = <<>> THEN heap[id].description
                          ELSE u.description[1]
                   /\ heap[id].kind # "habit" => heap'[id].target = heap[id].target
                   /\ heap[id].kind = "habit" =>
                          heap'[id].target = IF u.target = <<>> THEN heap[id].target
                                             ELSE u.target[1]
    ]_vars

\* the routine g1 was updated with a name and a target: it has the name,
\* no target, and still its child
C16_Witness ==
    /\ last.op = "update_habit" /\ last.id = "g1" /\ last.outcome = "item"
    /\ last.updates.name = <<"n1">> /\ last.updates.target = <<2 * One>>
    /\ heap["g1"].name = "n1" /\ heap["g1"].target = 0
    /\ heap["g1"].habits = <<"h1">>
    /\ heap["h1"].logs # <<>>

\* the ids in the child list of routine g
Children(hp, g) == {hp[g].habits[i] : i \in 1..Len(hp[g].habits)}

\* C14: an add-sub-habit request whose parent id is not stored or names a
\* leaf habit is answered 400 and leaves the repository as it was: the
\* stored keys, every object and so every routine's child list are the
\* same, and the child created for the request is neither stored nor a
\* child of any routine.
C14_RejectedSubHabitChangesNothing ==
    [][(/\ last'.op = "post_subhabits"
        /\ last'.value > 0
        /\ (last'.id \notin storage \/ heap[last'.id].kind # "group"))
       => /\ last'.outcome = "400"
          /\ storage' = storage
          /\ heap' = heap
          /\ last'.child \notin storage'
          /\ \A g \in Ids : last'.child \notin Children(heap', g)
    ]_vars

\* a sub-habit for the stored leaf h1 was refused while the routine g1 and
\* its child exist
C14_Witness ==
    /\ last.op = "post_subhabits" /\ last.id = "h1" /\ last.outcome = "400"
    /\ "h1" \in storage /\ heap["h1"].kind = "habit"
    /\ "g1" \in storage /\ heap["g1"].habits = <<"h2">>
    /\ last.child = "h3" /\ "h3" \notin storage

\* routine g lists child c, and c is not stored
Dangling(hp, st, g, c) ==
    hp[g].kind = "group" /\ c \in Children(hp, g) /\ c \notin st

\* C20: delete_habit of a routine's child takes its key out of the
\* repository and leaves every routine as it is: the parent still lists
\* the child and counts it in sub_habits_count, get_progress and
\* is_completed.  From then on the child stays out of the repository and
\* unchanged, a log request for it is answered 404, and a parent whose
\* deleted child is not completed today is not completed today.
C20_DeletedChildStaysInParent ==
    [][/\ (last'.op = "delete_habits" /\ last'.outcome = "204") =>
            /\ last'.id \in storage /\ last'.id \notin storage'
            /\ heap' = heap
            /\ \A g \in Groups :
                   last'.id \in Children(heap, g) =>
                       /\ Dangling(heap', storage', g, last'.id)
                       /\ VisitHabitGroup(heap', g) = VisitHabitGroup(heap, g)
                       /\ VisitHabitGroup(heap', g).sub_habits_count
                              = Len(heap[g].habits)
       /\ \A g \in Groups, c \in Ids :
              Dangling(heap, storage, g, c) =>
                  /\ c \notin storage'
                  /\ heap'[c] = heap[c]
                  /\ (last'.op = "post_logs" /\ last'.id = c) => last'.outcome = "404"
                  /\ heap'[g].kind = "group" => c \in Children(heap', g)
                  /\ ~Completed(c, Today) =>
                         ~ComponentIsCompleted(heap', g, Today, Fuel).val
    ]_vars

\* h1, not completed today, was deleted; its parent g1 also holds h2,
\* which is completed today: g1 reports two sub-habits, 50 percent and not
\* completed
C20_Witness ==
    /\ last.op = "delete_habits" /\ last.id = "h1" /\ last.outcome = "204"
    /\ heap["g1"].habits = <<"h1", "h2">>
    /\ "g1" \in storage /\ "h1" \notin storage
    /\ ~Completed("h1", Today) /\ Completed("h2", Today)
    /\ VisitHabitGroup(heap, "g1").sub_habits_count = 2
    /\ VisitHabitGroup(heap, "g1").progress_today = 5000
    /\ ~VisitHabitGroup(heap, "g1").is_completed_today

\* C21: for every routine, empty or not, nested or not, and every date d,
\* is_completed(d) returns True iff get_progress(d) returns 100.0; a
\* routine without children has progress 0.0 and is not completed.  When
\* is_completed raises, on a routine that reaches itself, get_progress
\* raises too, so one never answers True while the other answers
\* otherwise.
C21_CompletedIffFullProgress ==
    \A g \in Groups, d \in Dates :
        LET c == GroupIsCompleted(heap, g, d, Fuel)
            p == GroupGetProgress(heap, g, d, Fuel)
        IN /\ (~c.err /\ c.val) <=> (~p.err /\ p.num = 100 * p.den)
           /\ c.err => p.err
           /\ heap[g].habits = <<>> =>
                  /\ p = [err |-> FALSE, num |-> 0, den |-> 1]
                  /\ c = Returned(FALSE)

\* g1 holds the routine g2 and a habit and is completed at 100.0, g2 holds
\* one completed habit; yesterday both are at 0.0 and not completed
C21_Witness ==
    /\ heap["g1"].habits = <<"g2", "h1">>
    /\ heap["g2"].habits = <<"h2">>
    /\ GroupIsCompleted(heap, "g1", Today, Fuel) = Returned(TRUE)
    /\ GroupGetProgress(heap, "g1", Today, Fuel) = [err |-> FALSE, num |-> 200, den |-> 2]
    /\ GroupIsCompleted(heap, "g1", Today - 1, Fuel) = Returned(FALSE)
    /\ GroupGetProgress(heap, "g1", Today - 1, Fuel).num = 0

\* the places <<g, i>> at which a routine's child list holds c
Places(c) ==
    {p \in Groups \X (1..MaxChildren + 1) :
        p[2] <= Len(heap[p[1]].habits) /\ heap[p[1]].habits[p[2]] = c}

\* every child is a leaf held at one place only, and get_progress and
\* is_completed return on every routine
HierarchyIsForest ==
    /\ \A g \in Groups :
           \A i \in 1..Len(heap[g].habits) :
               /\ heap[heap[g].habits[i]].kind = "habit"
               /\ Cardinality(Places(heap[g].habits[i])) = 1
    /\ \A g \in Groups, d \in Dates :
           /\ ~GroupIsCompleted(heap, g, d, Fuel).err
           /\ ~GroupGetProgress(heap, g, d, Fuel).err

\* a child list changes only by an accepted add-sub-habit request on that
\* routine, which appends the habit it has just created
ChildrenOnlyBySubHabit ==
    \A g \in Ids :
        heap'[g].habits # heap[g].habits =>
            /\ last'.op = "post_subhabits" /\ last'.outcome = "201"
            /\ last'.id = g
            /\ heap[g].kind = "group"
            /\ heap[last'.child].kind = "none"
            /\ heap'[last'.child].kind = "habit"
            /\ heap'[g].habits = Append(heap[g].habits, last'.child)

\* C22: after any sequence of create, update, delete, add-sub-habit and
\* log requests, every child of every routine is a leaf habit that an
\* add-sub-habit request on that routine created, and it is in one routine
\* only, once; so no routine holds a routine, no routine reaches itself,
\* and get_progress and is_completed return on every routine.
C22_EndpointsBuildForest ==
    []HierarchyIsForest /\ [][ChildrenOnlyBySubHabit]_vars

\* g1 holds two habits and g2 one, every one of them a sub-habit; h1 has
\* been deleted from the repository and g1 renamed
C22_Witness ==
    /\ heap["g1"].habits = <<"h1", "h2">>
    /\ heap["g2"].habits = <<"h3">>
    /\ "h1" \notin storage /\ "g1" \in storage
    /\ heap["g1"].name = "n1"
    /\ heap["h2"].logs = <<>>

\* C23: in the report of every stored leaf, after any sequence of add_log,
\* log_progress and target updates, 0 <= current_streak <= completions <=
\* total_logs; and when the target is positive, current_streak >= 1 iff
\* the habit is completed today.
C23_ReportOrdering ==
    \A id \in Habits \cap storage :
        LET r == GetReport(heap, storage, id).report
        IN /\ 0 <= r.current_streak
           /\ r.current_streak <= r.completions
           /\ r.completions <= r.total_logs
           /\ heap[id].target > 0 =>
                  (r.current_streak >= 1 <=> r.is_completed_today)

\* the target of a habit with three logged days was raised to 2.0: one
\* day, today, still reaches it
C23_Witness ==
    LET r == GetReport(heap, storage, "h1").report
    IN /\ last.op = "update_habit" /\ last.outcome = "item"
       /\ heap["h1"].target = 2 * One
       /\ r.total_logs = 3
       /\ r.completions = 1
       /\ r.current_streak = 1
       /\ r.is_completed_today

====
